---------------------------- MODULE Spec2Model ----------------------------
(***************************************************************************)
(* A model of the core pieces of the DebugAssistant repository:            *)
(*                                                                         *)
(*   - EnhancedCommandProcessor (src/command_processor.py): the keyword    *)
(*     classifier parse_command and its helpers, as operators on strings;  *)
(*   - EnhancedVoiceManager (src/src/voice_manager.py): the speech queue,  *)
(*     its worker thread and the control calls made from other threads,    *)
(*     one action per statement that reads or writes shared state;         *)
(*   - DebugAssistantClient (src/start_assistant.py): process_command's    *)
(*     history and utility commands, and the help menu of show_help.       *)
(*                                                                         *)
(* Texts are TLA+ strings; Len, SubSeq and \o act on them as on Python's   *)
(* len, slicing and +.                                                     *)
(***************************************************************************)
EXTENDS Integers, Sequences, FiniteSets

VARIABLES
    commands,       \* self.commands of the command processor
    text,           \* the utterance handed to parse_command
    result,         \* what parse_command returned for it
    cpc,            \* the dispatch loop's position: "input" or "parsed"
    nfrag,          \* how many fragments the utterance was built from
    earlier         \* whether this processor has parsed an earlier command

cvars == <<commands, text, result, cpc, nfrag, earlier>>

VARIABLES
    speaking,       \* self.speaking
    paused,         \* self.paused
    stop_speaking,  \* self.stop_speaking, the Event's flag
    speech_queue,   \* self.speech_queue, oldest item first
    wpc,            \* the worker's position
    current,        \* the worker's local text: the item it dequeued
    chunks,         \* the worker's local chunks
    done,           \* how many chunks of current the for loop has been through
    tpc,            \* each calling thread's position
    ret,            \* where interrupt_speech returns to in each thread
    arg,            \* the item each thread's speak call is about to put
    ncalls,         \* speak calls begun so far
    ncontrols,      \* interrupt_speech and resume_speech calls begun so far
    shutdown_called,\* whether shutdown() has been called
    spoken,         \* history: the chunks handed to the engine, in order
    completed,      \* history: the items whose speak call has put them and returned
    before,         \* history: per item, the items whose speak returned before its speak began
    finished,       \* history: the items the worker has left, spoken or abandoned
    held,           \* history: per thread, the item the worker held when the thread's
                    \* interrupt_speech found speaking true
    caught,         \* history: the item the worker still held when that interrupt_speech
                    \* returned, and the chunks of it begun by then
    said,           \* history: per speak call, the text it was given
    failed,         \* history: the items during which the engine raised
    quiet           \* history: 0, or once an interrupt_speech that found speaking true
                    \* has returned and until resume_speech is called, 1 plus the
                    \* interrupt_speech calls since that found speaking false

svars == <<speaking, paused, stop_speaking, speech_queue, wpc, current, chunks, done,
           tpc, ret, arg, ncalls, ncontrols, shutdown_called,
           spoken, completed, before, finished, held, caught, said, failed, quiet>>

VARIABLES
    sentence,       \* the text handed to _chunk_text
    pieces,         \* what _chunk_text returned for it
    kpc,            \* "compose" while the text is put together, then "chunked"
    nwords          \* how many words the text has been put together from

kvars == <<sentence, pieces, kpc, nwords>>

VARIABLES
    volume,         \* the engine's 'volume' property, in percent
    rate            \* the engine's 'rate' property, in words per minute

evars == <<volume, rate>>

VARIABLES
    last_command,   \* self.last_command of the assistant; None is ""
    command_history,\* self.command_history
    running,        \* self.running
    command,        \* the command argument of the innermost process_command call
    frames,         \* how many process_command calls are on the stack
    ppc,            \* the position of the innermost process_command call
    handled,        \* history: the commands carried out for the command received last
    raised,         \* history: whether an except clause ran for it
    top,            \* history: the command received last
    previous,       \* history: the command received before it, "" if none
    nreceived       \* how many commands have been received

xvars == <<last_command, command_history, running, command, frames, ppc,
           handled, raised, top, previous, nreceived>>

VARIABLES
    apc,            \* per thread, the volume or rate call it is in, or "idle"
    local,          \* per thread, the value its call read from the engine
    adjustments     \* history: the volume and rate calls begun, in order

avars == <<apc, local, adjustments>>

(***************************************************************************)
(* Bounds of the model.                                                    *)
(***************************************************************************)
MaxFragments == 2

(***************************************************************************)
(* Python's str primitives.                                                *)
(***************************************************************************)
Whitespace == {" ", "\t", "\n"}

Digits == "0123456789"

UpperCase == "ABCDEFGHIJKLMNOPQRSTUVWXYZ"

LowerCase == "abcdefghijklmnopqrstuvwxyz"

CharAt(s, i) == SubSeq(s, i, i)

\* k in s
Contains(s, k) ==
    \E i \in 1..(Len(s) - Len(k) + 1) : SubSeq(s, i, i + Len(k) - 1) = k

\* s.find(k) + 1, for a k that occurs in s
IndexOf(s, k) ==
    CHOOSE i \in 1..(Len(s) - Len(k) + 1) :
        /\ SubSeq(s, i, i + Len(k) - 1) = k
        /\ \A j \in 1..(i - 1) : SubSeq(s, j, j + Len(k) - 1) # k

LowerChar(c) ==
    IF \E i \in 1..Len(UpperCase) : CharAt(UpperCase, i) = c
    THEN CharAt(LowerCase, CHOOSE i \in 1..Len(UpperCase) : CharAt(UpperCase, i) = c)
    ELSE c

RECURSIVE lower(_)
lower(s) ==
    IF s = "" THEN "" ELSE LowerChar(CharAt(s, 1)) \o lower(SubSeq(s, 2, Len(s)))

RECURSIVE lstrip(_)
lstrip(s) ==
    IF s # "" /\ CharAt(s, 1) \in Whitespace THEN lstrip(SubSeq(s, 2, Len(s))) ELSE s

RECURSIVE rstrip(_)
rstrip(s) ==
    IF s # "" /\ CharAt(s, Len(s)) \in Whitespace
    THEN rstrip(SubSeq(s, 1, Len(s) - 1))
    ELSE s

strip(s) == rstrip(lstrip(s))

\* the length of the run of non-whitespace characters that starts s
RECURSIVE TokenLen(_)
TokenLen(s) ==
    IF s = "" \/ CharAt(s, 1) \in Whitespace THEN 0
    ELSE 1 + TokenLen(SubSeq(s, 2, Len(s)))

\* s.split(): the whitespace-delimited tokens of s, in order
RECURSIVE split(_)
split(s) ==
    LET t == lstrip(s)
        n == TokenLen(t)
    IN  IF t = "" THEN <<>>
        ELSE <<SubSeq(t, 1, n)>> \o split(SubSeq(t, n + 1, Len(t)))

\* any(kw in s for kw in kws)
AnyIn(s, kws) == \E i \in DOMAIN kws : Contains(s, kws[i])

\* w in words
InList(w, words) == \E i \in DOMAIN words : words[i] = w

(***************************************************************************)
(* EnhancedCommandProcessor.__init__: the keyword tables.  A Python dict   *)
(* iterates in insertion order, so a dict that the code iterates is a      *)
(* sequence of (action, keywords) records.                                 *)
(***************************************************************************)
CommandTable ==
    [voice_control |->
        << [action |-> "stop",
            phrases |-> <<"stop", "quiet", "interrupt", "silence", "shut up", "be quiet",
                          "stop talking", "pause", "hold on", "wait">>],
           [action |-> "resume",
            phrases |-> <<"continue", "resume", "go on", "keep talking">>],
           [action |-> "read",
            phrases |-> <<"read", "tell me", "what does it say", "read this",
                          "analyze this", "explain this">>] >>,
     screen_reading |->
        [screen |-> <<"screen", "display", "window", "show me">>,
         code |-> <<"code", "editor", "program", "script", "function">>],
     vscode |->
        [keywords |-> <<"vscode", "vs code", "visual studio code", "vs", "editor">>,
         actions |->
            [open |-> <<"open", "launch", "start", "run">>,
             create |-> <<"create", "make", "new", "generate">>,
             workspace |-> <<"workspace", "project", "folder", "directory">>,
             save |-> <<"save", "store", "write">>,
             close |-> <<"close", "exit", "quit">>]],
     browser |->
        [keywords |-> <<"chrome", "firefox", "browser", "web", "internet">>,
         actions |->
            [open |-> <<"open", "launch", "start", "go to", "navigate", "browse">>,
             private |-> <<"private", "incognito", "secret">>,
             search |-> <<"search", "find", "look up", "google">>,
             close |-> <<"close", "exit", "quit", "stop">>]],
     window |->
        [keywords |-> <<"window", "screen", "application", "app">>,
         actions |->
            << [action |-> "maximize",
                keywords |-> <<"maximize", "make big", "full screen", "enlarge">>],
               [action |-> "minimize",
                keywords |-> <<"minimize", "make small", "hide">>],
               [action |-> "restore",
                keywords |-> <<"restore", "normal size", "reset size">>],
               [action |-> "switch",
                keywords |-> <<"switch to", "change to", "go to">>] >>],
     system |->
        [keywords |-> <<"system", "computer", "pc">>,
         actions |->
            << [action |-> "volume", keywords |-> <<"volume", "sound", "audio">>],
               [action |-> "brightness", keywords |-> <<"brightness", "screen light">>],
               [action |-> "shutdown",
                keywords |-> <<"shutdown", "turn off", "power off">>],
               [action |-> "restart",
                keywords |-> <<"restart", "reboot", "reload">>] >>]]

\* an intent: the dict every branch of parse_command returns
Intent(type, action, params) == [type |-> type, action |-> action, params |-> params]

\* {}: a params dict with no key
NoParams == <<>>

\* the default level of set_volume and set_brightness
DefaultLevel == 50

(***************************************************************************)
(* The helpers of parse_command.                                           *)
(***************************************************************************)
\* sum(1 for word in words if word in text.split())
RECURSIVE MatchedWords(_, _)
MatchedWords(words, tokens) ==
    IF words = <<>> THEN 0
    ELSE (IF InList(Head(words), tokens) THEN 1 ELSE 0) + MatchedWords(Tail(words), tokens)

\* the partial match with a threshold of one half
FuzzyPhrase_Half(t, phrase) ==
    LET words == split(phrase)
    IN  /\ Len(words) > 1
        /\ 2 * MatchedWords(words, split(t)) >= Len(words)

\* matched_words / len(words) >= 0.7, in tenths
FuzzyPhrase(t, phrase) ==
    LET words == split(phrase)
    IN  /\ Len(words) > 1
        /\ 10 * MatchedWords(words, split(t)) >= 7 * Len(words)

_fuzzy_match_phrases(t, phrases) ==
    \E i \in DOMAIN phrases : Contains(t, phrases[i]) \/ FuzzyPhrase(t, phrases[i])

\* _extract_name taking the word after the last naming keyword
_extract_name_LastKeyword(t) ==
    LET keywords == <<"called", "named", "name", "workspace", "project">>
        words == split(t)
        hits == {i \in DOMAIN words : InList(words[i], keywords) /\ i + 1 <= Len(words)}
    IN  IF hits = {} THEN ""
        ELSE words[(CHOOSE i \in hits : \A j \in hits : i >= j) + 1]

\* the first word after a naming keyword that is not the last word, else ""
_extract_name(t) ==
    LET keywords == <<"called", "named", "name", "workspace", "project">>
        words == split(t)
        hits == {i \in DOMAIN words : InList(words[i], keywords) /\ i + 1 <= Len(words)}
    IN  IF hits = {} THEN ""
        ELSE words[(CHOOSE i \in hits : \A j \in hits : i <= j) + 1]

\* the word after the first word 'file', else ""
_extract_path(t) ==
    LET words == split(t)
        hits == {i \in DOMAIN words : words[i] = "file"}
        idx == CHOOSE i \in hits : \A j \in hits : i <= j
    IN  IF hits # {} /\ idx + 1 <= Len(words) THEN words[idx + 1] ELSE ""

UrlLike(word) ==
    /\ Contains(word, ".")
    /\ CharAt(word, 1) # "."
    /\ CharAt(word, Len(word)) # "."
    /\ ~Contains(word, " ")

_extract_url(t) ==
    LET words == split(t)
        hits == {i \in DOMAIN words : UrlLike(words[i])}
    IN  IF hits = {} THEN "" ELSE words[CHOOSE i \in hits : \A j \in hits : i <= j]

\* text.split(keyword, 1)[1].strip() for the first listed keyword that occurs
_extract_search_terms(t) ==
    LET search_keywords == <<"search", "find", "look up", "google">>
        hits == {k \in DOMAIN search_keywords : Contains(t, search_keywords[k])}
        keyword == search_keywords[CHOOSE k \in hits : \A j \in hits : k <= j]
    IN  IF hits = {} THEN ""
        ELSE strip(SubSeq(t, IndexOf(t, keyword) + Len(keyword), Len(t)))

IsDigit(c) == Contains(Digits, c)

DigitValue(c) == IndexOf(Digits, c) - 1

\* int(s) for a string of decimal digits
RECURSIVE ParseInt(_)
ParseInt(s) ==
    IF s = "" THEN 0
    ELSE 10 * ParseInt(SubSeq(s, 1, Len(s) - 1)) + DigitValue(CharAt(s, Len(s)))

\* the length of the run of digits that starts s
RECURSIVE DigitRunLen(_)
DigitRunLen(s) ==
    IF s = "" \/ ~IsDigit(CharAt(s, 1)) THEN 0
    ELSE 1 + DigitRunLen(SubSeq(s, 2, Len(s)))

\* re.findall(r'\d+', text)[0] as an int; None is <<>>, a number n is <<n>>
_extract_number(t) ==
    LET hits == {i \in 1..Len(t) : IsDigit(CharAt(t, i))}
        first == CHOOSE i \in hits : \A j \in hits : i <= j
    IN  IF hits = {} THEN <<>>
        ELSE <<ParseInt(SubSeq(t, first, first + DigitRunLen(SubSeq(t, first, Len(t))) - 1))>>

_detect_browser(t) ==
    IF Contains(t, "chrome") THEN "chrome"
    ELSE IF Contains(t, "firefox") THEN "firefox"
    ELSE "chrome"

_detect_app(t) ==
    LET apps == <<"vscode", "chrome", "firefox", "notepad">>
        hits == {i \in DOMAIN apps : Contains(t, apps[i])}
    IN  IF hits = {} THEN "active" ELSE apps[CHOOSE i \in hits : \A j \in hits : i <= j]

(***************************************************************************)
(* The per-category parsers.  cmds is self.commands.                       *)
(***************************************************************************)
\* _parse_vscode_command with the file branch taken on an 'open' synonym
_parse_vscode_command_OpenIsFile(cmds, t) ==
    IF /\ AnyIn(t, cmds.vscode.actions.create)
       /\ AnyIn(t, cmds.vscode.actions.workspace)
    THEN Intent("vscode", "create_workspace",
                [name |-> IF _extract_name(t) # "" THEN _extract_name(t) ELSE "new_workspace"])
    ELSE IF AnyIn(t, cmds.vscode.actions.open)
    THEN Intent("vscode", "open_file", [file |-> _extract_path(t)])
    ELSE Intent("vscode", "open", NoParams)

_parse_vscode_command(cmds, t) ==
    IF /\ AnyIn(t, cmds.vscode.actions.create)
       /\ AnyIn(t, cmds.vscode.actions.workspace)
    THEN LET name == _extract_name(t)
         IN  Intent("vscode", "create_workspace",
                    [name |-> IF name # "" THEN name ELSE "new_workspace"])
    ELSE IF Contains(t, "file")
    THEN Intent("vscode", "open_file", [file |-> _extract_path(t)])
    ELSE Intent("vscode", "open", NoParams)

\* _parse_browser_command with the URL test ahead of the search test
_parse_browser_command_UrlFirst(cmds, t) ==
    IF _extract_url(t) # ""
    THEN Intent("browser", "open",
                [browser |-> _detect_browser(t), url |-> _extract_url(t),
                 private |-> AnyIn(t, cmds.browser.actions.private)])
    ELSE IF AnyIn(t, cmds.browser.actions.search)
    THEN Intent("browser", "search",
                [browser |-> _detect_browser(t), terms |-> _extract_search_terms(t),
                 private |-> AnyIn(t, cmds.browser.actions.private)])
    ELSE Intent("browser", "open",
                [browser |-> _detect_browser(t),
                 private |-> AnyIn(t, cmds.browser.actions.private)])

_parse_browser_command(cmds, t) ==
    LET browser == _detect_browser(t)
        url == _extract_url(t)
        private == AnyIn(t, cmds.browser.actions.private)
    IN  IF AnyIn(t, cmds.browser.actions.search)
        THEN Intent("browser", "search",
                    [browser |-> browser, terms |-> _extract_search_terms(t),
                     private |-> private])
        ELSE IF url # ""
        THEN Intent("browser", "open",
                    [browser |-> browser, url |-> url, private |-> private])
        ELSE Intent("browser", "open", [browser |-> browser, private |-> private])

_parse_window_command(cmds, t) ==
    LET actions == cmds.window.actions
        hits == {i \in DOMAIN actions : AnyIn(t, actions[i].keywords)}
    IN  IF hits # {}
        THEN Intent("window", actions[CHOOSE i \in hits : \A j \in hits : i <= j].action,
                    [app |-> _detect_app(t)])
        ELSE Intent("window", "focus", [app |-> _detect_app(t)])

\* level or 50: a level of 0 is replaced by the default as well
LevelOrDefault_Falsy(t) ==
    LET level == _extract_number(t)
    IN  IF level # <<>> /\ level[1] # 0 THEN level[1] ELSE DefaultLevel

\* level if level is not None else 50
LevelOrDefault(t) ==
    LET level == _extract_number(t)
    IN  IF level # <<>> THEN level[1] ELSE DefaultLevel

_parse_system_command(cmds, t) ==
    LET actions == cmds.system.actions
        hits == {i \in DOMAIN actions : AnyIn(t, actions[i].keywords)}
        action == actions[CHOOSE i \in hits : \A j \in hits : i <= j].action
    IN  IF hits = {} THEN Intent("system", "unknown", NoParams)
        ELSE IF action = "volume"
        THEN Intent("system", "set_volume", [level |-> LevelOrDefault(t)])
        ELSE IF action = "brightness"
        THEN Intent("system", "set_brightness", [level |-> LevelOrDefault(t)])
        ELSE Intent("system", action, NoParams)

(***************************************************************************)
(* parse_command: the first matching branch wins.                          *)
(***************************************************************************)
\* the voice-control loop: the first action group one of whose phrases matches
VoiceMatch(cmds, t) ==
    {i \in DOMAIN cmds.voice_control : _fuzzy_match_phrases(t, cmds.voice_control[i].phrases)}

\* Classify with the screen-reading check moved ahead of the voice-control loop
Classify_ScreenFirst(cmds, t) ==
    LET voice == VoiceMatch(cmds, t)
    IN  IF AnyIn(t, cmds.screen_reading.screen)
        THEN IF AnyIn(t, cmds.screen_reading.code)
             THEN Intent("screen", "read_code", NoParams)
             ELSE Intent("screen", "read", NoParams)
        ELSE IF voice # {}
        THEN Intent("voice",
                    cmds.voice_control[CHOOSE i \in voice : \A j \in voice : i <= j].action,
                    NoParams)
        ELSE IF AnyIn(t, cmds.vscode.keywords) THEN _parse_vscode_command(cmds, t)
        ELSE IF AnyIn(t, cmds.browser.keywords) THEN _parse_browser_command(cmds, t)
        ELSE IF AnyIn(t, cmds.window.keywords) THEN _parse_window_command(cmds, t)
        ELSE IF AnyIn(t, cmds.system.keywords) THEN _parse_system_command(cmds, t)
        ELSE Intent("ai_query", "process", [query |-> t])

\* Classify without the final return: Python then returns None
Classify_NoFallback(cmds, t) ==
    LET voice == VoiceMatch(cmds, t)
    IN  IF voice # {}
        THEN Intent("voice",
                    cmds.voice_control[CHOOSE i \in voice : \A j \in voice : i <= j].action,
                    NoParams)
        ELSE IF AnyIn(t, cmds.screen_reading.screen)
        THEN IF AnyIn(t, cmds.screen_reading.code)
             THEN Intent("screen", "read_code", NoParams)
             ELSE Intent("screen", "read", NoParams)
        ELSE IF AnyIn(t, cmds.vscode.keywords) THEN _parse_vscode_command(cmds, t)
        ELSE IF AnyIn(t, cmds.browser.keywords) THEN _parse_browser_command(cmds, t)
        ELSE IF AnyIn(t, cmds.window.keywords) THEN _parse_window_command(cmds, t)
        ELSE IF AnyIn(t, cmds.system.keywords) THEN _parse_system_command(cmds, t)
        ELSE <<>>

\* Classify with the window branch tested before the browser branch
Classify_WindowBeforeBrowser(cmds, t) ==
    LET voice == VoiceMatch(cmds, t)
    IN  IF voice # {}
        THEN Intent("voice",
                    cmds.voice_control[CHOOSE i \in voice : \A j \in voice : i <= j].action,
                    NoParams)
        ELSE IF AnyIn(t, cmds.screen_reading.screen)
        THEN IF AnyIn(t, cmds.screen_reading.code)
             THEN Intent("screen", "read_code", NoParams)
             ELSE Intent("screen", "read", NoParams)
        ELSE IF AnyIn(t, cmds.vscode.keywords) THEN _parse_vscode_command(cmds, t)
        ELSE IF AnyIn(t, cmds.window.keywords) THEN _parse_window_command(cmds, t)
        ELSE IF AnyIn(t, cmds.browser.keywords) THEN _parse_browser_command(cmds, t)
        ELSE IF AnyIn(t, cmds.system.keywords) THEN _parse_system_command(cmds, t)
        ELSE Intent("ai_query", "process", [query |-> t])

\* the body of parse_command after text = text.lower().strip()
Classify(cmds, t) ==
    LET voice == VoiceMatch(cmds, t)
    IN  IF voice # {}
        THEN Intent("voice",
                    cmds.voice_control[CHOOSE i \in voice : \A j \in voice : i <= j].action,
                    NoParams)
        ELSE IF AnyIn(t, cmds.screen_reading.screen)
        THEN IF AnyIn(t, cmds.screen_reading.code)
             THEN Intent("screen", "read_code", NoParams)
             ELSE Intent("screen", "read", NoParams)
        ELSE IF AnyIn(t, cmds.vscode.keywords) THEN _parse_vscode_command(cmds, t)
        ELSE IF AnyIn(t, cmds.browser.keywords) THEN _parse_browser_command(cmds, t)
        ELSE IF AnyIn(t, cmds.window.keywords) THEN _parse_window_command(cmds, t)
        ELSE IF AnyIn(t, cmds.system.keywords) THEN _parse_system_command(cmds, t)
        ELSE Intent("ai_query", "process", [query |-> t])

\* parse_command without text = text.lower().strip()
parse_command_Raw(cmds, raw) == Classify(cmds, raw)

parse_command(cmds, raw) == Classify(cmds, strip(lower(raw)))

(***************************************************************************)
(* The command session: an utterance arrives (built here from fragments    *)
(* of the help menu's commands, keywords of every category, filler words,  *)
(* blanks and capitals, joined by single spaces), parse_command classifies *)
(* it, and the loop goes on to the next utterance with the same processor. *)
(***************************************************************************)
Vocabulary ==
    { "stop", "Wait", "shut up", "hold", "on", "continue", "go on",
      "read screen", "show me", "display", "window", "code", "function",
      "open vs code", "editor", "create workspace called my_app", "open file main.py",
      "chrome", "firefox", "private", "search for python tutorials", "go to example.com",
      "maximize", "app", "set volume to 80", "set volume", "system",
      "restart computer", "brightness", "hello", "7", " ", "\t",
      "what does it", "me show", "computer volume 50", "pc brightness 0",
      "system sound 150 or 20", "firefox find docs.python.org" }

\* no intent yet: parse_command has not returned for this utterance
NoIntent == <<>>

ClassifierInit ==
    /\ commands = CommandTable
    /\ text = ""
    /\ result = NoIntent
    /\ cpc = "input"
    /\ nfrag = 0
    /\ earlier = FALSE

\* the listener hears one more fragment of the utterance
Utter(f) ==
    /\ cpc = "input"
    /\ nfrag < MaxFragments
    /\ text' = IF nfrag = 0 THEN f ELSE text \o " " \o f
    /\ nfrag' = nfrag + 1
    /\ UNCHANGED <<commands, result, cpc, earlier>>
    /\ UNCHANGED <<svars, kvars, evars, xvars, avars>>

\* ParseCommand with a classifier that consumes the action group it matched
ParseCommand_Consuming ==
    /\ cpc = "input"
    /\ result' = parse_command(commands, text)
    /\ commands' = IF result'.type = "voice"
                   THEN [commands EXCEPT !.voice_control = Tail(@)]
                   ELSE commands
    /\ cpc' = "parsed"
    /\ UNCHANGED <<text, nfrag, earlier>>
    /\ UNCHANGED <<svars, kvars, evars, xvars, avars>>

\* parsed = self.command_processor.parse_command(command)
ParseCommand ==
    /\ cpc = "input"
    /\ result' = parse_command(commands, text)
    /\ cpc' = "parsed"
    /\ UNCHANGED <<commands, text, nfrag, earlier>>
    /\ UNCHANGED <<svars, kvars, evars, xvars, avars>>

\* the dispatch loop takes the next command from its queue
NextCommand ==
    /\ cpc = "parsed"
    /\ text' = ""
    /\ nfrag' = 0
    /\ result' = NoIntent
    /\ cpc' = "input"
    /\ earlier' = TRUE
    /\ UNCHANGED commands
    /\ UNCHANGED <<svars, kvars, evars, xvars, avars>>

ClassifierNext ==
    \/ \E f \in Vocabulary : Utter(f)
    \/ ParseCommand
    \/ NextCommand

(***************************************************************************)
(* EnhancedVoiceManager._chunk_text.                                       *)
(***************************************************************************)
\* a sentence longer than this is split further
LongSentence == 100

\* a sub-chunk is closed once it is longer than this
TargetChunk == 80

SentenceEnd == {".", "!", "?"}

\* re.split(r'(?<=[.!?])\s+', s): split at each whitespace run that follows . ! or ?
RECURSIVE SplitSentences(_)
SplitSentences(s) ==
    LET cuts == {i \in 2..Len(s) : CharAt(s, i - 1) \in SentenceEnd
                                   /\ CharAt(s, i) \in Whitespace}
        cut == CHOOSE i \in cuts : \A j \in cuts : i <= j
    IN  IF cuts = {} THEN <<s>>
        ELSE <<SubSeq(s, 1, cut - 1)>> \o SplitSentences(lstrip(SubSeq(s, cut, Len(s))))

\* ' '.join(words)
RECURSIVE Join(_)
Join(words) ==
    IF words = <<>> THEN ""
    ELSE IF Len(words) = 1 THEN words[1]
    ELSE words[1] \o " " \o Join(Tail(words))

\* the loop over words with a sub-chunk closed before the word that would take
\* it past 80
RECURSIVE PackWords_CloseBefore(_, _)
PackWords_CloseBefore(words, current_chunk) ==
    IF words = <<>>
    THEN IF current_chunk # <<>> THEN <<Join(current_chunk)>> ELSE <<>>
    ELSE LET c == Append(current_chunk, Head(words))
         IN  IF Len(Join(c)) > TargetChunk /\ current_chunk # <<>>
             THEN <<Join(current_chunk)>> \o PackWords_CloseBefore(Tail(words), <<Head(words)>>)
             ELSE PackWords_CloseBefore(Tail(words), c)

\* the loop over words without the append of the words left over after it
RECURSIVE PackWords_DropsRest(_, _)
PackWords_DropsRest(words, current_chunk) ==
    IF words = <<>>
    THEN <<>>
    ELSE LET c == Append(current_chunk, Head(words))
         IN  IF Len(Join(c)) > TargetChunk
             THEN <<Join(c)>> \o PackWords_DropsRest(Tail(words), <<>>)
             ELSE PackWords_DropsRest(Tail(words), c)

\* the loop over words: a sub-chunk is closed by the word that takes it past 80
RECURSIVE PackWords(_, _)
PackWords(words, current_chunk) ==
    IF words = <<>>
    THEN IF current_chunk # <<>> THEN <<Join(current_chunk)>> ELSE <<>>
    ELSE LET c == Append(current_chunk, Head(words))
         IN  IF Len(Join(c)) > TargetChunk
             THEN <<Join(c)>> \o PackWords(Tail(words), <<>>)
             ELSE PackWords(Tail(words), c)

RECURSIVE SplitLong(_)
SplitLong(sentences) ==
    IF sentences = <<>> THEN <<>>
    ELSE (IF Len(Head(sentences)) > LongSentence
          THEN PackWords(split(Head(sentences)), <<>>)
          ELSE <<Head(sentences)>>) \o SplitLong(Tail(sentences))

_chunk_text(s) == SplitLong(SplitSentences(s))

(***************************************************************************)
(* _chunk_text applied to the texts the assistant speaks: error messages   *)
(* and answers made of short words, file paths, qualified names and URLs,  *)
(* separated by single spaces.                                             *)
(***************************************************************************)
MaxWords == 5

SpokenWords ==
    { "now.", "failed",
      "src/automation/browser_controller.py",
      "https://example.com/docs/debugging/guide" }

ChunkInit ==
    /\ sentence = ""
    /\ pieces = <<>>
    /\ kpc = "compose"
    /\ nwords = 0

\* one more word of the text
AddWord(w) ==
    /\ kpc = "compose"
    /\ nwords < MaxWords
    /\ sentence' = IF nwords = 0 THEN w ELSE sentence \o " " \o w
    /\ nwords' = nwords + 1
    /\ UNCHANGED <<pieces, kpc>>
    /\ UNCHANGED <<cvars, svars, evars, xvars, avars>>

\* chunks = self._chunk_text(text)
ChunkText ==
    /\ kpc = "compose"
    /\ pieces' = _chunk_text(sentence)
    /\ kpc' = "chunked"
    /\ UNCHANGED <<sentence, nwords>>
    /\ UNCHANGED <<cvars, svars, evars, xvars, avars>>

ChunkNext ==
    \/ \E w \in SpokenWords : AddWord(w)
    \/ ChunkText

(***************************************************************************)
(* EnhancedVoiceManager: the speech queue, the worker thread and the       *)
(* threads that call speak, interrupt_speech, resume_speech and shutdown.  *)
(* A thread's position is the line of voice_manager.py it executes next.   *)
(***************************************************************************)
MaxSpeaks == 2

MaxControls == 2

\* the threads that call into the voice manager: the dispatch loop and the hotkey thread
Threads == {"main", "hotkey"}

\* what callers say
SpeechTexts == {"", "Build failed. Two tests broke."}

\* a queued text; the calls are numbered to tell equal texts apart
Item(id, txt) == [id |-> id, text |-> txt]

\* the shutdown signal put on the queue
None == Item(0, "")

\* a put that makes the queue a stack
Put_Front(q, item) == <<item>> \o q

\* queue.Queue.put
Put(q, item) == Append(q, item)

NoCatch == [id |-> 0, n |-> 0]

SpeechInit ==
    /\ speaking = FALSE
    /\ paused = FALSE
    /\ stop_speaking = FALSE
    /\ speech_queue = <<>>
    /\ wpc = "L45"
    /\ current = None
    /\ chunks = <<>>
    /\ done = 0
    /\ tpc = [t \in Threads |-> "idle"]
    /\ ret = [t \in Threads |-> "idle"]
    /\ arg = [t \in Threads |-> None]
    /\ ncalls = 0
    /\ ncontrols = 0
    /\ shutdown_called = FALSE
    /\ spoken = <<>>
    /\ completed = {}
    /\ before = <<>>
    /\ finished = {}
    /\ held = [t \in Threads |-> 0]
    /\ caught = NoCatch
    /\ said = <<>>
    /\ failed = {}
    /\ quiet = 0

wlocals == <<current, chunks, done>>
flags == <<speaking, paused, stop_speaking>>
tvars == <<tpc, ret, arg, ncalls, ncontrols, shutdown_called>>
history == <<spoken, completed, before, finished, held, caught, said, failed, quiet>>

(***************************************************************************)
(* _speech_worker.                                                         *)
(***************************************************************************)
\* the worker is through with the item it holds
LeaveItem ==
    /\ finished' = finished \cup {current.id}
    /\ caught' = IF caught.id = current.id THEN NoCatch ELSE caught
    /\ current' = None
    /\ chunks' = <<>>
    /\ done' = 0

\* text = self.speech_queue.get(); if text is None: break
Worker_Get ==
    /\ wpc = "L45"
    /\ speech_queue # <<>>
    /\ speech_queue' = Tail(speech_queue)
    /\ current' = Head(speech_queue)
    /\ wpc' = IF Head(speech_queue) = None THEN "exited" ELSE "L49"
    /\ UNCHANGED <<flags, chunks, done, tvars, history>>
    /\ UNCHANGED <<cvars, kvars, evars, xvars, avars>>

\* self.speaking = True
Worker_SetSpeaking ==
    /\ wpc = "L49"
    /\ speaking' = TRUE
    /\ wpc' = "L50"
    /\ UNCHANGED <<paused, stop_speaking, speech_queue, wlocals, tvars, history>>
    /\ UNCHANGED <<cvars, kvars, evars, xvars, avars>>

\* self.stop_speaking.clear(); chunks = self._chunk_text(text); for chunk in chunks:
Worker_ClearStop ==
    /\ wpc = "L50"
    /\ stop_speaking' = FALSE
    /\ chunks' = _chunk_text(current.text)
    /\ done' = 0
    /\ wpc' = IF chunks' = <<>> THEN "L70" ELSE "L57"
    /\ UNCHANGED <<speaking, paused, speech_queue, current, tvars, history>>
    /\ UNCHANGED <<cvars, kvars, evars, xvars, avars>>

\* while self.paused:
Worker_CheckPaused ==
    /\ wpc = "L57"
    /\ wpc' = IF paused THEN "L58" ELSE "L63"
    /\ UNCHANGED <<flags, speech_queue, wlocals, tvars, history>>
    /\ UNCHANGED <<cvars, kvars, evars, xvars, avars>>

\* if self.stop_speaking.is_set(): break; else wait 0.1 s and test paused again
Worker_PollStop ==
    /\ wpc = "L58"
    /\ wpc' = IF stop_speaking THEN "L63" ELSE "L57"
    /\ UNCHANGED <<flags, speech_queue, wlocals, tvars, history>>
    /\ UNCHANGED <<cvars, kvars, evars, xvars, avars>>

\* if self.stop_speaking.is_set(): break
Worker_CheckStop ==
    /\ wpc = "L63"
    /\ wpc' = IF stop_speaking THEN "L70" ELSE "L67"
    /\ UNCHANGED <<flags, speech_queue, wlocals, tvars, history>>
    /\ UNCHANGED <<cvars, kvars, evars, xvars, avars>>

\* a for loop that ends after its first chunk
Worker_Say_Once ==
    /\ wpc = "L67"
    /\ spoken' = Append(spoken, [id |-> current.id, chunk |-> done + 1])
    /\ done' = done + 1
    /\ wpc' = "L70"
    /\ UNCHANGED <<flags, speech_queue, current, chunks, tvars,
                   completed, before, finished, held, caught, said, failed, quiet>>
    /\ UNCHANGED <<cvars, kvars, evars, xvars, avars>>

\* self.engine.say(chunk); self.engine.runAndWait(); next chunk
Worker_Say ==
    /\ wpc = "L67"
    /\ spoken' = Append(spoken, [id |-> current.id, chunk |-> done + 1])
    /\ done' = done + 1
    /\ wpc' = IF done + 1 = Len(chunks) THEN "L70" ELSE "L57"
    /\ UNCHANGED <<flags, speech_queue, current, chunks, tvars,
                   completed, before, finished, held, caught, said, failed, quiet>>
    /\ UNCHANGED <<cvars, kvars, evars, xvars, avars>>

\* the engine raises in say or runAndWait: control goes to the except clause
Worker_SayRaises ==
    /\ wpc = "L67"
    /\ wpc' = "L74"
    /\ failed' = failed \cup {current.id}
    /\ UNCHANGED <<flags, speech_queue, wlocals, tvars,
                   spoken, completed, before, finished, held, caught, said, quiet>>
    /\ UNCHANGED <<cvars, kvars, evars, xvars, avars>>

\* self.speaking = False, after the for loop; back to the top of while True
\* (text and chunks are dead until the next get assigns them: they are cleared)
Worker_Finish ==
    /\ wpc = "L70"
    /\ speaking' = FALSE
    /\ LeaveItem
    /\ wpc' = "L45"
    /\ UNCHANGED <<paused, stop_speaking, speech_queue, tvars,
                   spoken, completed, before, held, said, failed, quiet>>
    /\ UNCHANGED <<cvars, kvars, evars, xvars, avars>>

\* a worker without the except clause: the exception ends the thread
Worker_Except_Dies ==
    /\ wpc = "L74"
    /\ wpc' = "exited"
    /\ UNCHANGED <<flags, speech_queue, wlocals, tvars, history>>
    /\ UNCHANGED <<cvars, kvars, evars, xvars, avars>>

\* an except clause that leaves speaking as it is
Worker_Except_KeepsSpeaking ==
    /\ wpc = "L74"
    /\ LeaveItem
    /\ wpc' = "L45"
    /\ UNCHANGED <<flags, speech_queue, tvars,
                   spoken, completed, before, held, said, failed, quiet>>
    /\ UNCHANGED <<cvars, kvars, evars, xvars, avars>>

\* except Exception: self.speaking = False; back to the top of while True
Worker_Except ==
    /\ wpc = "L74"
    /\ speaking' = FALSE
    /\ LeaveItem
    /\ wpc' = "L45"
    /\ UNCHANGED <<paused, stop_speaking, speech_queue, tvars,
                   spoken, completed, before, held, said, failed, quiet>>
    /\ UNCHANGED <<cvars, kvars, evars, xvars, avars>>

WorkerNext ==
    \/ Worker_Get
    \/ Worker_SetSpeaking
    \/ Worker_ClearStop
    \/ Worker_CheckPaused
    \/ Worker_PollStop
    \/ Worker_CheckStop
    \/ Worker_Say
    \/ Worker_SayRaises
    \/ Worker_Finish
    \/ Worker_Except

\* the worker holds an item: it is between the get and the next get
InItem == wpc \in {"L49", "L50", "L57", "L58", "L63", "L67", "L70", "L74"}

\* the chunks of the current item the worker has begun: those handed to the
\* engine, and the one whose stop check it has already passed
Begun == IF wpc = "L67" THEN done + 1 ELSE done

(***************************************************************************)
(* speak, interrupt_speech, resume_speech and shutdown, called by thread t.*)
(***************************************************************************)
\* the argument of speak(None), kept apart from every text a caller says
NoneArg == "<None>"

\* what speak() may be given
SpeakArgs == SpeechTexts \cup {NoneArg}

\* if text: neither the empty string nor None
Truthy(txt) == txt \notin {"", NoneArg}

\* speak(txt) without its test of text: whatever it is given is queued
Speak_Call_Unchecked(t, txt) ==
    /\ tpc[t] = "idle"
    /\ ~(t = "main" /\ shutdown_called)
    /\ ncalls < MaxSpeaks
    /\ ncalls' = ncalls + 1
    /\ before' = Append(before, completed)
    /\ said' = Append(said, txt)
    /\ tpc' = [tpc EXCEPT ![t] = "L107"]
    /\ arg' = [arg EXCEPT ![t] = IF txt = NoneArg THEN None ELSE Item(ncalls + 1, txt)]
    /\ UNCHANGED <<flags, speech_queue, wpc, wlocals, ret, ncontrols, shutdown_called,
                   spoken, completed, finished, held, caught, failed, quiet>>
    /\ UNCHANGED <<cvars, kvars, evars, xvars, avars>>

\* speak(txt): if text: ... ; an empty text or None returns at once
Speak_Call(t, txt) ==
    /\ tpc[t] = "idle"
    /\ ~(t = "main" /\ shutdown_called)
    /\ ncalls < MaxSpeaks
    /\ ncalls' = ncalls + 1
    /\ before' = Append(before, completed)
    /\ said' = Append(said, txt)
    /\ IF Truthy(txt)
       THEN /\ tpc' = [tpc EXCEPT ![t] = "L107"]
            /\ arg' = [arg EXCEPT ![t] = Item(ncalls + 1, txt)]
       ELSE UNCHANGED <<tpc, arg>>
    /\ UNCHANGED <<flags, speech_queue, wpc, wlocals, ret, ncontrols, shutdown_called,
                   spoken, completed, finished, held, caught, failed, quiet>>
    /\ UNCHANGED <<cvars, kvars, evars, xvars, avars>>

\* self.speech_queue.put(text)
Speak_Put(t) ==
    /\ tpc[t] = "L107"
    /\ speech_queue' = Put(speech_queue, arg[t])
    /\ completed' = completed \cup {arg[t].id}
    /\ arg' = [arg EXCEPT ![t] = None]
    /\ tpc' = [tpc EXCEPT ![t] = "idle"]
    /\ UNCHANGED <<flags, wpc, wlocals, ret, ncalls, ncontrols, shutdown_called,
                   spoken, before, finished, held, caught, said, failed, quiet>>
    /\ UNCHANGED <<cvars, kvars, evars, xvars, avars>>

\* the item the worker holds when interrupt_speech finds speaking true, else 0
Held == IF speaking /\ InItem THEN current.id ELSE 0

\* interrupt_speech() without its test of self.speaking
Interrupt_Call_Unguarded(t) ==
    /\ tpc[t] = "idle"
    /\ ~(t = "main" /\ shutdown_called)
    /\ ncontrols < MaxControls
    /\ ncontrols' = ncontrols + 1
    /\ tpc' = [tpc EXCEPT ![t] = "L112"]
    /\ ret' = [ret EXCEPT ![t] = "idle"]
    /\ held' = [held EXCEPT ![t] = Held]
    /\ UNCHANGED <<flags, speech_queue, wpc, wlocals, arg, ncalls, shutdown_called,
                   spoken, completed, before, finished, caught, said, failed, quiet>>
    /\ UNCHANGED <<cvars, kvars, evars, xvars, avars>>

\* a hotkey or a voice command calls interrupt_speech(): if self.speaking:
Interrupt_Call(t) ==
    /\ tpc[t] = "idle"
    /\ ~(t = "main" /\ shutdown_called)
    /\ ncontrols < MaxControls
    /\ ncontrols' = ncontrols + 1
    /\ tpc' = [tpc EXCEPT ![t] = IF speaking THEN "L112" ELSE "idle"]
    /\ ret' = [ret EXCEPT ![t] = "idle"]
    /\ held' = [held EXCEPT ![t] = Held]
    /\ quiet' = IF ~speaking /\ quiet > 0 THEN quiet + 1 ELSE quiet
    /\ UNCHANGED <<flags, speech_queue, wpc, wlocals, arg, ncalls, shutdown_called,
                   spoken, completed, before, finished, caught, said, failed>>
    /\ UNCHANGED <<cvars, kvars, evars, xvars, avars>>

\* self.stop_speaking.set()
Interrupt_SetStop(t) ==
    /\ tpc[t] = "L112"
    /\ stop_speaking' = TRUE
    /\ tpc' = [tpc EXCEPT ![t] = "L113"]
    /\ UNCHANGED <<speaking, paused, speech_queue, wpc, wlocals, ret, arg, ncalls,
                   ncontrols, shutdown_called, history>>
    /\ UNCHANGED <<cvars, kvars, evars, xvars, avars>>

\* self.paused = True
Interrupt_Pause(t) ==
    /\ tpc[t] = "L113"
    /\ paused' = TRUE
    /\ tpc' = [tpc EXCEPT ![t] = "L115"]
    /\ UNCHANGED <<speaking, stop_speaking, speech_queue, wpc, wlocals, ret, arg, ncalls,
                   ncontrols, shutdown_called, history>>
    /\ UNCHANGED <<cvars, kvars, evars, xvars, avars>>

\* self.engine.stop(), any exception swallowed; self.speaking = False; return
Interrupt_Finish(t) ==
    /\ tpc[t] = "L115"
    /\ speaking' = FALSE
    /\ tpc' = [tpc EXCEPT ![t] = ret[t]]
    /\ caught' = IF InItem /\ current.id = held[t] /\ caught.id # held[t]
                 THEN [id |-> current.id, n |-> Begun]
                 ELSE caught
    /\ held' = [held EXCEPT ![t] = 0]
    /\ quiet' = 1
    /\ UNCHANGED <<paused, stop_speaking, speech_queue, wpc, wlocals, ret, arg, ncalls,
                   ncontrols, shutdown_called, spoken, completed, before, finished,
                   said, failed>>
    /\ UNCHANGED <<cvars, kvars, evars, xvars, avars>>

\* a hotkey or a voice command calls resume_speech(): if self.paused:
Resume_Call(t) ==
    /\ tpc[t] = "idle"
    /\ ~(t = "main" /\ shutdown_called)
    /\ ncontrols < MaxControls
    /\ ncontrols' = ncontrols + 1
    /\ tpc' = [tpc EXCEPT ![t] = IF paused THEN "L124" ELSE "idle"]
    /\ quiet' = 0
    /\ UNCHANGED <<flags, speech_queue, wpc, wlocals, ret, arg, ncalls, shutdown_called,
                   spoken, completed, before, finished, held, caught, said, failed>>
    /\ UNCHANGED <<cvars, kvars, evars, xvars, avars>>

\* self.paused = False
Resume_Clear(t) ==
    /\ tpc[t] = "L124"
    /\ paused' = FALSE
    /\ tpc' = [tpc EXCEPT ![t] = "idle"]
    /\ quiet' = 0
    /\ UNCHANGED <<speaking, stop_speaking, speech_queue, wpc, wlocals, ret, arg, ncalls,
                   ncontrols, shutdown_called,
                   spoken, completed, before, finished, held, caught, said, failed>>
    /\ UNCHANGED <<cvars, kvars, evars, xvars, avars>>

\* the dispatch loop's finally clause calls shutdown(), which begins with
\* self.interrupt_speech(): if self.speaking:
Shutdown_Call(t) ==
    /\ t = "main"
    /\ tpc[t] = "idle"
    /\ ~shutdown_called
    /\ shutdown_called' = TRUE
    /\ tpc' = [tpc EXCEPT ![t] = IF speaking THEN "L112" ELSE "L170"]
    /\ ret' = [ret EXCEPT ![t] = "L170"]
    /\ held' = [held EXCEPT ![t] = Held]
    /\ quiet' = IF ~speaking /\ quiet > 0 THEN quiet + 1 ELSE quiet
    /\ UNCHANGED <<flags, speech_queue, wpc, wlocals, arg, ncalls, ncontrols,
                   spoken, completed, before, finished, caught, said, failed>>
    /\ UNCHANGED <<cvars, kvars, evars, xvars, avars>>

\* self.speech_queue.put(None); then the join with a timeout and engine.stop()
Shutdown_Put(t) ==
    /\ tpc[t] = "L170"
    /\ speech_queue' = Put(speech_queue, None)
    /\ tpc' = [tpc EXCEPT ![t] = "idle"]
    /\ ret' = [ret EXCEPT ![t] = "idle"]
    /\ UNCHANGED <<flags, wpc, wlocals, arg, ncalls, ncontrols, shutdown_called,
                   history>>
    /\ UNCHANGED <<cvars, kvars, evars, xvars, avars>>

\* a thread goes on with the call it is in
ThreadStep(t) ==
    \/ Speak_Put(t)
    \/ Interrupt_SetStop(t)
    \/ Interrupt_Pause(t)
    \/ Interrupt_Finish(t)
    \/ Resume_Clear(t)
    \/ Shutdown_Put(t)

\* a thread begins a call
ThreadCall(t) ==
    \/ \E txt \in SpeakArgs : Speak_Call(t, txt)
    \/ Interrupt_Call(t)
    \/ Resume_Call(t)
    \/ Shutdown_Call(t)

(***************************************************************************)
(* The volume and rate controls, called from the hotkey thread one after   *)
(* the other.  The engine keeps the volume in percent (0.9 is 90, a step   *)
(* of 0.1 is 10).  A call in which the engine raises prints the error and  *)
(* changes nothing: a stuttering step.                                     *)
(***************************************************************************)
InitialRate == 150

InitialVolume == 90

FullVolume == 100

VolumeStep == 10

RateStep == 25

MinRate == 50

\* the rates the model follows: increase_rate itself has no upper limit
MaxRate == 300

Min(a, b) == IF a <= b THEN a ELSE b

Max(a, b) == IF a >= b THEN a ELSE b

EngineInit ==
    /\ volume = InitialVolume
    /\ rate = InitialRate

\* new_volume = min(1.0, current + 0.1)
increase_volume ==
    /\ volume' = Min(FullVolume, volume + VolumeStep)
    /\ UNCHANGED rate
    /\ UNCHANGED <<cvars, svars, kvars, xvars, avars>>

\* new_volume = max(0.0, current - 0.1)
decrease_volume ==
    /\ volume' = Max(0, volume - VolumeStep)
    /\ UNCHANGED rate
    /\ UNCHANGED <<cvars, svars, kvars, xvars, avars>>

\* new_rate = current + 25
increase_rate ==
    /\ rate + RateStep <= MaxRate
    /\ rate' = rate + RateStep
    /\ UNCHANGED volume
    /\ UNCHANGED <<cvars, svars, kvars, xvars, avars>>

\* decrease_rate without the floor
decrease_rate_NoFloor ==
    /\ rate' = rate - RateStep
    /\ UNCHANGED volume
    /\ UNCHANGED <<cvars, svars, kvars, xvars, avars>>

\* new_rate = max(50, current - 25)
decrease_rate ==
    /\ rate' = Max(MinRate, rate - RateStep)
    /\ UNCHANGED volume
    /\ UNCHANGED <<cvars, svars, kvars, xvars, avars>>

EngineNext ==
    \/ increase_volume
    \/ decrease_volume
    \/ increase_rate
    \/ decrease_rate

SpeechNext ==
    \/ WorkerNext
    \/ \E t \in Threads : ThreadStep(t)
    \/ \E t \in Threads : ThreadCall(t)

(***************************************************************************)
(* DebugAssistantClient.process_command (src/start_assistant.py): the      *)
(* history, last_command and the utility commands.  A call of              *)
(* process_command from itself adds a frame; the interpreter raises        *)
(* RecursionError when the frames would exceed its limit.                  *)
(***************************************************************************)
MaxCommands == 3

\* the interpreter's recursion limit
RecursionLimit == 5

max_history == 10

\* what the user enters
SessionCommands == {"repeat", "Repeat", "help", "history", "quit", "open vs code"}

SessionInit ==
    /\ last_command = ""
    /\ command_history = <<>>
    /\ running = TRUE
    /\ command = ""
    /\ frames = 0
    /\ ppc = "idle"
    /\ handled = <<>>
    /\ raised = FALSE
    /\ top = ""
    /\ previous = ""
    /\ nreceived = 0

\* self.command_history.append(command); pop(0) when longer than max_history
add_to_history(history_, c) ==
    LET h == Append(history_, c)
    IN  IF Len(h) > max_history THEN Tail(h) ELSE h

\* command_type, command = self.command_queue.get(); await self.process_command(...)
Session_Receive(c) ==
    /\ ppc = "idle"
    /\ running
    /\ nreceived < MaxCommands
    /\ nreceived' = nreceived + 1
    /\ command' = c
    /\ frames' = 1
    /\ ppc' = "L131"
    /\ previous' = top
    /\ top' = c
    /\ handled' = <<>>
    /\ raised' = FALSE
    /\ UNCHANGED <<last_command, command_history, running>>
    /\ UNCHANGED <<cvars, svars, kvars, evars, avars>>

\* self.add_to_history(command); self.last_command = command
Session_Record ==
    /\ ppc = "L131"
    /\ command_history' = add_to_history(command_history, command)
    /\ last_command' = command
    /\ ppc' = "L135"
    /\ UNCHANGED <<running, command, frames, handled, raised, top, previous, nreceived>>
    /\ UNCHANGED <<cvars, svars, kvars, evars, avars>>

\* if command.lower() == 'quit': self.running = False; ...; return
Session_Quit ==
    /\ ppc = "L135"
    /\ lower(command) = "quit"
    /\ running' = FALSE
    /\ handled' = Append(handled, command)
    /\ ppc' = "return"
    /\ UNCHANGED <<last_command, command_history, command, frames, raised, top,
                   previous, nreceived>>
    /\ UNCHANGED <<cvars, svars, kvars, evars, avars>>

\* 'help' and 'history': show_help() or show_command_history(); return
Session_Utility ==
    /\ ppc = "L135"
    /\ lower(command) \in {"help", "history"}
    /\ handled' = Append(handled, command)
    /\ ppc' = "return"
    /\ UNCHANGED <<last_command, command_history, running, command, frames, raised, top,
                   previous, nreceived>>
    /\ UNCHANGED <<cvars, svars, kvars, evars, avars>>

\* 'repeat': if self.last_command: await self.process_command(command_type,
\* self.last_command); return
Session_Repeat ==
    /\ ppc = "L135"
    /\ lower(command) = "repeat"
    /\ last_command # "" => frames < RecursionLimit
    /\ IF last_command # ""
       THEN /\ frames' = frames + 1
            /\ command' = last_command
            /\ ppc' = "L131"
       ELSE /\ ppc' = "return"
            /\ UNCHANGED <<frames, command>>
    /\ UNCHANGED <<last_command, command_history, running, handled, raised, top,
                   previous, nreceived>>
    /\ UNCHANGED <<cvars, svars, kvars, evars, avars>>

\* the call of line 150 when the stack is full: RecursionError, raised inside
\* the try of the calling frame
Session_Overflow ==
    /\ ppc = "L135"
    /\ lower(command) = "repeat"
    /\ last_command # ""
    /\ frames = RecursionLimit
    /\ ppc' = "L186"
    /\ UNCHANGED <<last_command, command_history, running, command, frames, handled,
                   raised, top, previous, nreceived>>
    /\ UNCHANGED <<cvars, svars, kvars, evars, avars>>

\* any other command: parse_command and the handler of its category, or the AI query
Session_Dispatch ==
    /\ ppc = "L135"
    /\ lower(command) \notin {"quit", "help", "history", "repeat"}
    /\ parse_command(commands, command).type \in
           {"voice", "screen", "vscode", "browser", "window", "system", "ai_query"}
    /\ handled' = Append(handled, command)
    /\ ppc' = "return"
    /\ UNCHANGED <<last_command, command_history, running, command, frames, raised, top,
                   previous, nreceived>>
    /\ UNCHANGED <<cvars, svars, kvars, evars, avars>>

\* except Exception as e: print and speak the error; the call then returns
Session_Except ==
    /\ ppc = "L186"
    /\ raised' = TRUE
    /\ ppc' = "return"
    /\ UNCHANGED <<last_command, command_history, running, command, frames, handled,
                   top, previous, nreceived>>
    /\ UNCHANGED <<cvars, svars, kvars, evars, avars>>

\* a call returns: to the return of line 151 in its caller, or to the loop of run
Session_Return ==
    /\ ppc = "return"
    /\ frames' = frames - 1
    /\ ppc' = IF frames = 1 THEN "idle" ELSE "return"
    /\ UNCHANGED <<last_command, command_history, running, command, handled, raised,
                   top, previous, nreceived>>
    /\ UNCHANGED <<cvars, svars, kvars, evars, avars>>

SessionNext ==
    \/ \E c \in SessionCommands : Session_Receive(c)
    \/ Session_Record
    \/ Session_Quit
    \/ Session_Utility
    \/ Session_Repeat
    \/ Session_Overflow
    \/ Session_Dispatch
    \/ Session_Except
    \/ Session_Return

(***************************************************************************)
(* The volume and rate controls called from two threads at once: a call    *)
(* reads the property with getProperty and then writes it with             *)
(* setProperty, and nothing keeps another call from running in between.    *)
(***************************************************************************)
MaxAdjust == 3

AdjustOps == {"increase_volume", "decrease_volume", "increase_rate", "decrease_rate"}

AdjustInit ==
    /\ apc = [t \in Threads |-> "idle"]
    /\ local = [t \in Threads |-> 0]
    /\ adjustments = <<>>

\* the value a call writes after reading v
NewValue(op, v) ==
    CASE op = "increase_volume" -> Min(FullVolume, v + VolumeStep)
      [] op = "decrease_volume" -> Max(0, v - VolumeStep)
      [] op = "increase_rate" -> v + RateStep
      [] op = "decrease_rate" -> Max(MinRate, v - RateStep)

\* current = self.engine.getProperty(...)
Adjust_Get(t, op) ==
    /\ apc[t] = "idle"
    /\ Len(adjustments) < MaxAdjust
    /\ op = "increase_rate" => rate + RateStep <= MaxRate
    /\ apc' = [apc EXCEPT ![t] = op]
    /\ local' = [local EXCEPT ![t] = IF op \in {"increase_volume", "decrease_volume"}
                                     THEN volume ELSE rate]
    /\ adjustments' = Append(adjustments, op)
    /\ UNCHANGED <<cvars, svars, kvars, evars, xvars>>

\* self.engine.setProperty(..., new value)
Adjust_Set(t) ==
    /\ apc[t] # "idle"
    /\ IF apc[t] \in {"increase_volume", "decrease_volume"}
       THEN volume' = NewValue(apc[t], local[t]) /\ UNCHANGED rate
       ELSE rate' = NewValue(apc[t], local[t]) /\ UNCHANGED volume
    /\ apc' = [apc EXCEPT ![t] = "idle"]
    /\ UNCHANGED <<local, adjustments>>
    /\ UNCHANGED <<cvars, svars, kvars, xvars>>

AdjustNext ==
    \/ \E t \in Threads : \E op \in AdjustOps : Adjust_Get(t, op)
    \/ \E t \in Threads : Adjust_Set(t)

(***************************************************************************)
(* The specifications: the command session, and the voice manager with its *)
(* threads interleaved statement by statement.                             *)
(***************************************************************************)
vars == <<cvars, svars, kvars, evars, xvars, avars>>

Init ==
    /\ ClassifierInit /\ SpeechInit /\ ChunkInit /\ EngineInit
    /\ SessionInit /\ AdjustInit

Next == ClassifierNext

Spec == Init /\ [][Next]_vars

SpeechSpec == Init /\ [][SpeechNext]_vars

\* the voice manager when nobody interrupts or shuts down and the engine
\* works: the worker's steps and the speak() calls of both threads
PlainTexts == SpeechTexts \cup {"Done."}

PlainWorker ==
    \/ Worker_Get
    \/ Worker_SetSpeaking
    \/ Worker_ClearStop
    \/ Worker_CheckPaused
    \/ Worker_CheckStop
    \/ Worker_Say
    \/ Worker_Finish

PlainNext ==
    \/ PlainWorker
    \/ \E t \in Threads : Speak_Put(t)
    \/ \E t \in Threads : \E txt \in PlainTexts : Speak_Call(t, txt)

\* the scheduler runs the worker while it can take a step and lets a thread
\* finish the speak() it has begun
PlainSpeechSpec ==
    /\ Init
    /\ [][PlainNext]_vars
    /\ WF_vars(PlainWorker)
    /\ \A t \in Threads : WF_vars(Speak_Put(t))

ChunkSpec == Init /\ [][ChunkNext]_vars

EngineSpec == Init /\ [][EngineNext]_vars

SessionSpec == Init /\ [][SessionNext]_vars

AdjustSpec == Init /\ [][AdjustNext]_vars

\* the scheduler runs the worker thread while it can take a step, and lets
\* every calling thread finish the call it has begun
FairSpeechSpec ==
    /\ SpeechSpec
    /\ WF_vars(WorkerNext)
    /\ \A t \in Threads : WF_vars(ThreadStep(t))

(***************************************************************************)
(* The claims about the classifier.                                        *)
(***************************************************************************)
\* the utterance as parse_command matches it: lower-cased and trimmed
Normalized == strip(lower(text))

StopSynonyms ==
    <<"stop", "quiet", "interrupt", "silence", "shut up", "be quiet", "stop talking",
      "pause", "hold on", "wait">>

ResumeSynonyms == <<"continue", "resume", "go on", "keep talking">>

ScreenSynonyms == <<"screen", "display", "window", "show me">>

CodeSynonyms == <<"code", "editor", "program", "script", "function">>

Categories == {"voice", "screen", "vscode", "browser", "window", "system", "ai_query"}

\* C1: an utterance that contains a stop synonym is classified voice/stop with
\* empty params, whatever keywords of other categories or voice groups it also holds.
C1_StopPriority ==
    (cpc = "parsed" /\ AnyIn(Normalized, StopSynonyms))
        => result = Intent("voice", "stop", NoParams)

\* a parsed utterance with a stop synonym, a screen synonym and a browser keyword
C1_Witness ==
    /\ cpc = "parsed"
    /\ AnyIn(Normalized, StopSynonyms)
    /\ AnyIn(Normalized, ScreenSynonyms)
    /\ Contains(Normalized, "read")
    /\ result.action = "stop"

\* C5: parse_command is total: every utterance, the empty and the blank ones
\* included, yields one intent with the fields type, action and params, whose
\* type is one of the seven categories.
C5_Total ==
    cpc = "parsed" =>
        /\ DOMAIN result = {"type", "action", "params"}
        /\ result.type \in Categories

\* a parsed utterance made of whitespace only
C5_Witness ==
    /\ cpc = "parsed"
    /\ text # ""
    /\ Normalized = ""
    /\ result.type = "ai_query"

\* C6: parse_command is deterministic and stateless: after any earlier calls the
\* keyword tables are those of a fresh processor, and the intent returned is the
\* one a fresh processor returns for the same text.
C6_Deterministic ==
    /\ commands = CommandTable
    /\ cpc = "parsed" => result = parse_command(CommandTable, text)

\* a voice command parsed by a processor that has parsed earlier commands
C6_Witness ==
    /\ cpc = "parsed"
    /\ earlier
    /\ result.type = "voice"

\* C7: an utterance with a screen synonym that matches no stop or resume phrase
\* is classified screen, read_code with a code synonym and read without; so
\* 'read screen' is screen/read.
C7_ScreenReading ==
    (/\ cpc = "parsed"
     /\ AnyIn(Normalized, ScreenSynonyms)
     /\ ~_fuzzy_match_phrases(Normalized, StopSynonyms)
     /\ ~_fuzzy_match_phrases(Normalized, ResumeSynonyms))
        => result = Intent("screen",
                           IF AnyIn(Normalized, CodeSynonyms) THEN "read_code" ELSE "read",
                           NoParams)

\* C8: 'create workspace called my_app' is editor/create_workspace with
\* params {name: my_app}.
C8_CreateWorkspace ==
    (cpc = "parsed" /\ text = "create workspace called my_app")
        => result = Intent("vscode", "create_workspace", [name |-> "my_app"])

\* C9: 'search for python tutorials' is browser/search with terms
\* 'python tutorials', the default browser chrome and private false.
C9_SearchFor ==
    (cpc = "parsed" /\ text = "search for python tutorials")
        => result = Intent("browser", "search",
                           [browser |-> "chrome", terms |-> "python tutorials",
                            private |-> FALSE])

\* C10: 'set volume to 80' is system/set_volume with level 80, and 'set volume'
\* is system/set_volume with level 50.
C10_SetVolume ==
    /\ (cpc = "parsed" /\ text = "set volume to 80")
        => result = Intent("system", "set_volume", [level |-> 80])
    /\ (cpc = "parsed" /\ text = "set volume")
        => result = Intent("system", "set_volume", [level |-> 50])

(***************************************************************************)
(* The claims about the voice manager.                                     *)
(***************************************************************************)
\* C2: once an interrupt_speech() that found speaking true while the worker held
\* item X has returned, no chunk of X that the worker had not begun by then is
\* vocalized, under any interleaving and whether or not resume_speech() follows.
\* (A chunk whose stop check the worker had already passed counts as begun.)
C2_InterruptDiscards ==
    \A i \in DOMAIN spoken :
        (caught # NoCatch /\ spoken[i].id = caught.id) => spoken[i].chunk <= caught.n

\* C3: items are vocalized in FIFO order: a chunk of B is vocalized only after
\* the worker has left every item A whose speak() returned before B's began, no
\* chunk of such an A follows a chunk of B, and the chunks of one item come in
\* their text order; speak() calls of different threads overlap.
C3_Fifo ==
    /\ \A j \in DOMAIN spoken : before[spoken[j].id] \subseteq finished
    /\ InItem => before[current.id] \subseteq finished
    /\ \A i, j \in DOMAIN spoken :
        i < j => /\ spoken[j].id \notin before[spoken[i].id]
                 /\ spoken[i].id = spoken[j].id => spoken[i].chunk < spoken[j].chunk

\* two items put by different threads, the second after the first's speak()
\* returned, both vocalized, the first of them in two chunks
C3_Witness ==
    /\ Len(spoken) >= 3
    /\ \E i, j \in DOMAIN spoken :
        /\ i < j
        /\ spoken[i].id \in before[spoken[j].id]
        /\ spoken[i].chunk = 2
    /\ wpc = "L45"

\* C4: after shutdown() is called the worker eventually takes the None
\* sentinel and leaves its loop, whatever it was doing and whatever is queued,
\* with or without a later resume_speech().
C4_WorkerExits == shutdown_called ~> (wpc = "exited")

(***************************************************************************)
(* Further claims about the classifier.                                    *)
(***************************************************************************)
\* C11: 'open vs code' is classified editor (type vscode) with action open and
\* empty params.
C11_OpenVsCode ==
    (cpc = "parsed" /\ Normalized = "open vs code")
        => result = Intent("vscode", "open", NoParams)

\* 'open vs code' has been parsed, heard with a trailing blank
C11_Witness ==
    /\ cpc = "parsed"
    /\ Normalized = "open vs code"
    /\ text # Normalized
    /\ result.type = "vscode"

\* the keyword lists of the categories, in the order the claims name them
ReadSynonyms ==
    <<"read", "tell me", "what does it say", "read this", "analyze this", "explain this">>

CategoryOrder == <<"voice", "screen", "vscode", "browser", "window", "system">>

CategoryKeywords ==
    [voice   |-> StopSynonyms \o ResumeSynonyms \o ReadSynonyms,
     screen  |-> ScreenSynonyms,
     vscode  |-> <<"vscode", "vs code", "visual studio code", "vs", "editor">>,
     browser |-> <<"chrome", "firefox", "browser", "web", "internet">>,
     window  |-> <<"window", "screen", "application", "app">>,
     system  |-> <<"system", "computer", "pc">>]

\* a keyword of the category occurs in t
Occurs(cat, t) == AnyIn(t, CategoryKeywords[cat])

\* the category matches t: a keyword occurs, or for voice a phrase matches by
\* the 70% word overlap
Matches(cat, t) ==
    IF cat = "voice" THEN _fuzzy_match_phrases(t, CategoryKeywords[cat]) ELSE Occurs(cat, t)

\* the positions in CategoryOrder of the categories that match t
Matching(t) == {i \in DOMAIN CategoryOrder : Matches(CategoryOrder[i], t)}

\* C19: when keywords of several categories match, the category returned is the
\* first of them in the order voice, screen, editor, browser, window, system; a
\* later category is returned only if no keyword of an earlier one occurs.
C19_FirstMatchWins ==
    cpc = "parsed" =>
        /\ Matching(Normalized) # {} =>
              \E i \in Matching(Normalized) :
                  /\ \A j \in Matching(Normalized) : i <= j
                  /\ result.type = CategoryOrder[i]
        /\ \A i \in DOMAIN CategoryOrder :
              result.type = CategoryOrder[i] =>
                  \A j \in 1..(i - 1) : ~Occurs(CategoryOrder[j], Normalized)

\* a parsed utterance with a browser and a window keyword, classified browser
C19_Witness ==
    /\ cpc = "parsed"
    /\ Occurs("browser", Normalized)
    /\ Occurs("window", Normalized)
    /\ result.type = "browser"

\* C20: the intent is ai_query/process exactly when no category matches the
\* utterance, and its params are then {query: t} with t the utterance lower-cased
\* and stripped of leading and trailing whitespace.
C20_Fallback ==
    cpc = "parsed" =>
        /\ (result.type = "ai_query" /\ result.action = "process")
              <=> (Matching(Normalized) = {})
        /\ Matching(Normalized) = {} => result.params = [query |-> Normalized]

\* an utterance with no keyword, heard with surrounding blanks, has been parsed
C20_Witness ==
    /\ cpc = "parsed"
    /\ Normalized # ""
    /\ text # Normalized
    /\ result.type = "ai_query"
    /\ result.params.query = Normalized

(***************************************************************************)
(* The claims about _chunk_text.                                           *)
(***************************************************************************)
\* the words of all the chunks, in order
RECURSIVE WordsOf(_)
WordsOf(cs) == IF cs = <<>> THEN <<>> ELSE split(Head(cs)) \o WordsOf(Tail(cs))

\* a word list without its last word
WithoutLast(ws) == IF ws = <<>> THEN <<>> ELSE SubSeq(ws, 1, Len(ws) - 1)

\* the text is one sentence longer than 100 characters and has been chunked
LongSingleSentence ==
    /\ kpc = "chunked"
    /\ Len(sentence) > LongSentence
    /\ SplitSentences(sentence) = <<sentence>>

\* no word of the text is split: the chunks hold the words of the text in order
WordsKept ==
    /\ WordsOf(pieces) = split(sentence)
    /\ \A i \in DOMAIN pieces : pieces[i] = Join(split(pieces[i]))

\* C15, as claimed: a single sentence longer than 100 characters yields more
\* than one chunk, every chunk is at most 80 characters long, and no word is
\* split across chunks.
C15_ChunkCap ==
    LongSingleSentence =>
        /\ Len(pieces) > 1
        /\ \A i \in DOMAIN pieces : Len(pieces[i]) <= TargetChunk
        /\ WordsKept

\* C15, amended: no word is split; every chunk is at most 80 characters long
\* without its last word, and every chunk but the last is longer than 80
\* characters; there is more than one chunk exactly when the sentence without
\* its last word is longer than 80 characters.
C15_ChunkTarget ==
    LongSingleSentence =>
        /\ WordsKept
        /\ \A i \in DOMAIN pieces :
              /\ Len(Join(WithoutLast(split(pieces[i])))) <= TargetChunk
              /\ i < Len(pieces) => Len(pieces[i]) > TargetChunk
        /\ Len(pieces) > 1 <=> Len(Join(WithoutLast(split(sentence)))) > TargetChunk

\* a single sentence of more than 100 characters chunked into three chunks
C15_Witness ==
    /\ LongSingleSentence
    /\ Len(pieces) = 3
    /\ Len(pieces[3]) <= TargetChunk

(***************************************************************************)
(* The claims about the volume and rate controls.                          *)
(***************************************************************************)
\* a volume call moves the volume by exactly 0.1 unless clamped at 0.0 or 1.0, a
\* rate call moves the rate by exactly 25 unless a decrease is clamped at 50
ControlSteps ==
    /\ increase_volume =>
          \/ volume' = volume + 10
          \/ volume' = 100 /\ volume + 10 > 100
    /\ decrease_volume =>
          \/ volume' = volume - 10
          \/ volume' = 0 /\ volume - 10 < 0
    /\ increase_rate => rate' = rate + 25
    /\ decrease_rate =>
          \/ rate' = rate - 25
          \/ rate' = 50 /\ rate - 25 < 50

\* C14: from volume 0.9 (90 percent) and rate 150, after any sequence of volume
\* and rate calls the volume lies in [0.0, 1.0] and the rate is at least 50, and
\* every call moves its property by exactly one step unless clamped.
C14_ControlsBounded ==
    /\ [](volume \in 0..100 /\ rate >= 50)
    /\ [][ControlSteps]_vars

\* the volume has been turned down to 0.0 and the rate down to 50
C14_Witness ==
    /\ volume = 0
    /\ rate = 50

(***************************************************************************)
(* Further claims about the voice manager.                                 *)
(***************************************************************************)
\* the worker waits in speech_queue.get() and nothing is queued
WorkerIdle == wpc = "L45" /\ speech_queue = <<>>

\* thread t is inside the body of interrupt_speech's if
InInterrupt(t) == tpc[t] \in {"L112", "L113", "L115"}

\* an interrupt_speech() call, from a hotkey, a voice command or shutdown()
InterruptCalled(t) == Interrupt_Call(t) \/ Shutdown_Call(t)

\* what interrupt_speech() may do, step by step
InterruptSteps ==
    \A t \in Threads :
        /\ (InterruptCalled(t) /\ (WorkerIdle \/ ~speaking)) =>
              /\ UNCHANGED <<speaking, paused, stop_speaking>>
              /\ ~InInterrupt(t)'
        /\ Interrupt_Finish(t) => ~speaking'

\* C12: interrupt_speech() when the queue is empty and the worker idle, or
\* right after another interrupt_speech(), changes neither paused nor the
\* cancellation flag nor speaking and returns at once; when the worker is idle
\* speaking is false, and when an interrupt_speech() returns speaking is false.
C12_InterruptIdempotent ==
    /\ [](WorkerIdle => ~speaking)
    /\ [][InterruptSteps]_vars

\* an interrupt_speech() that acted has been followed by one that found
\* nothing speaking, and the worker is idle with an empty queue
C12_Witness ==
    /\ quiet = 2
    /\ WorkerIdle
    /\ paused /\ stop_speaking /\ ~speaking
    /\ \A t \in Threads : tpc[t] = "idle"

\* what an exception of the engine leads to, step by step: the worker gives the
\* item up, sets speaking to false and waits on the queue again, and no calling
\* thread is disturbed
ExceptionSteps ==
    /\ (wpc = "L67" /\ wpc' = "L74") => (tpc' = tpc /\ speech_queue' = speech_queue)
    /\ (wpc = "L74" /\ wpc' # "L74") =>
          /\ wpc' = "L45"
          /\ ~speaking'
          /\ current.id \in finished'
          /\ tpc' = tpc /\ speech_queue' = speech_queue

\* C13: an exception of the engine while a chunk is vocalized never ends the
\* worker: it is caught, the item is given up, speaking becomes false and the
\* worker goes back to the queue; the worker leaves its loop only on the None
\* sentinel; the speak() call of a failed item had returned before.
C13_ExceptionCaught ==
    /\ [](/\ failed \subseteq completed
          /\ wpc = "exited" => (shutdown_called /\ current = None))
    /\ [][ExceptionSteps]_vars

\* the engine raised on the first chunk of the first item, and the item put
\* after it has been vocalized in full
C13_Witness ==
    /\ failed = {1}
    /\ Len(before) >= 2
    /\ 1 \in before[2]
    /\ spoken = <<[id |-> 2, chunk |-> 1], [id |-> 2, chunk |-> 2]>>
    /\ finished = {1, 2}
    /\ wpc = "L45"

\* C16: speaking is written by the worker thread only: no step of a thread
\* that calls speak, interrupt_speech, resume_speech or shutdown changes it.
C16_SpeakingWorkerOnly ==
    [][(\E t \in Threads : ThreadStep(t) \/ ThreadCall(t)) => speaking' = speaking]_vars

\* C17: once an interrupt_speech() that found speaking true has returned, and
\* until resume_speech() is called, the worker starts no chunk of any item: it
\* does not pass the stop test that precedes engine.say.
C17_HeldUntilResume ==
    [][(quiet > 0 /\ \A t \in Threads : tpc[t] # "L124")
           => ~(wpc = "L63" /\ wpc' = "L67")]_vars

\* the speak calls the model follows
Calls == 1..MaxSpeaks

\* how often chunk k of item id has been handed to the engine
TimesSpoken(id, k) ==
    Cardinality({i \in DOMAIN spoken : spoken[i] = [id |-> id, chunk |-> k]})

\* speak call id was given a non-empty text
Asked(id) == id <= Len(said) /\ Truthy(said[id])

\* every chunk of the text of call id has been vocalized, once
FullySpoken(id) ==
    /\ Asked(id)
    /\ \A k \in 1..Len(_chunk_text(said[id])) : TimesSpoken(id, k) = 1

\* C18: without interrupt_speech(), shutdown() and engine exceptions, every
\* non-empty text passed to speak() by any thread is eventually vocalized in
\* full, no chunk is ever vocalized twice or out of the text, and speak() never
\* waits for the worker: its put can always proceed.
C18_EventuallySpoken ==
    /\ \A id \in Calls : Asked(id) ~> FullySpoken(id)
    /\ [](\A i \in DOMAIN spoken :
            /\ TimesSpoken(spoken[i].id, spoken[i].chunk) = 1
            /\ spoken[i].chunk \in 1..Len(_chunk_text(said[spoken[i].id])))
    /\ [](\A t \in Threads : tpc[t] = "L107" => ENABLED Speak_Put(t))

\* two texts, passed to speak() by different threads, have both been
\* vocalized in full, one of them of two chunks
C18_Witness ==
    /\ Len(said) = 2
    /\ FullySpoken(1) /\ FullySpoken(2)
    /\ Len(spoken) = 3
    /\ wpc = "L45"

(***************************************************************************)
(* The claims about the sub-classification of the classifier.              *)
(***************************************************************************)
\* at least 70% of the words of phrase p are whitespace-delimited tokens of t
Overlap70(t, p) ==
    LET words == split(p)
        tokens == {split(t)[i] : i \in DOMAIN split(t)}
    IN  10 * Cardinality({i \in DOMAIN words : words[i] \in tokens}) >= 7 * Len(words)

\* phrase p matches t as the voice-control loop is claimed to match it
PhraseMatches(t, p) == Contains(t, p) \/ (Len(split(p)) > 1 /\ Overlap70(t, p))

\* C21: a multi-word voice-control phrase that is no substring still matches
\* when at least 70% of its words are tokens of the input; single-word phrases
\* match as substrings only; the other categories match by substring only.
C21_FuzzyVoiceOnly ==
    cpc = "parsed" =>
        /\ result.type = "voice" <=>
              \E i \in DOMAIN CategoryKeywords.voice :
                  PhraseMatches(Normalized, CategoryKeywords.voice[i])
        /\ \A cat \in {"screen", "vscode", "browser", "window", "system"} :
              result.type = cat => Occurs(cat, Normalized)

\* an utterance classified voice although no voice-control phrase occurs in it
C21_Witness ==
    /\ cpc = "parsed"
    /\ result.type = "voice"
    /\ ~Occurs("voice", Normalized)

(***************************************************************************)
(* Sub-classification inside the browser, editor and system categories.    *)
(***************************************************************************)
SearchSynonyms == <<"search", "find", "look up", "google">>

PrivateSynonyms == <<"private", "incognito", "secret">>

\* the search keyword that is matched: the first of the list that occurs
MatchedSearchKeyword(t) ==
    LET hits == {k \in DOMAIN SearchSynonyms : Contains(t, SearchSynonyms[k])}
    IN  SearchSynonyms[CHOOSE k \in hits : \A j \in hits : k <= j]

\* the trimmed text after the first occurrence of keyword k
TextAfter(t, k) == strip(SubSeq(t, IndexOf(t, k) + Len(k), Len(t)))

\* a token that contains '.' and neither starts nor ends with '.'
UrlToken(w) == Contains(w, ".") /\ CharAt(w, 1) # "." /\ CharAt(w, Len(w)) # "."

\* the first URL-like token of a token list, "" when there is none
RECURSIVE FirstUrlToken(_)
FirstUrlToken(ws) ==
    IF ws = <<>> THEN ""
    ELSE IF UrlToken(ws[1]) THEN ws[1]
    ELSE FirstUrlToken(Tail(ws))

\* C25: a browser input is a search whenever a search synonym occurs, with the
\* trimmed text after the first occurrence of the matched keyword as terms,
\* even next to a URL-like token; otherwise it is an open, with the first
\* URL-like token as url and no url parameter when there is none; browser is
\* firefox only if firefox occurs and chrome does not; private is true exactly
\* when private, incognito or secret occurs.
C25_BrowserIntent ==
    (cpc = "parsed" /\ result.type = "browser") =>
        LET t == Normalized
            browser == IF Contains(t, "firefox") /\ ~Contains(t, "chrome")
                       THEN "firefox" ELSE "chrome"
            private == AnyIn(t, PrivateSynonyms)
            url == FirstUrlToken(split(t))
        IN  IF AnyIn(t, SearchSynonyms)
            THEN result = Intent("browser", "search",
                                 [browser |-> browser,
                                  terms |-> TextAfter(t, MatchedSearchKeyword(t)),
                                  private |-> private])
            ELSE IF url # ""
            THEN result = Intent("browser", "open",
                                 [browser |-> browser, url |-> url, private |-> private])
            ELSE result = Intent("browser", "open",
                                 [browser |-> browser, private |-> private])

\* a private firefox search whose text also holds a URL-like token
C25_Witness ==
    /\ cpc = "parsed"
    /\ result.type = "browser"
    /\ result.action = "search"
    /\ FirstUrlToken(split(Normalized)) # ""
    /\ result.params.browser = "firefox"
    /\ result.params.private

NamingKeywords == {"called", "named", "name", "workspace", "project"}

\* the token after the first naming keyword that is followed by a token
RECURSIVE NameIn(_)
NameIn(ws) ==
    IF Len(ws) < 2 THEN ""
    ELSE IF ws[1] \in NamingKeywords THEN ws[2]
    ELSE NameIn(Tail(ws))

\* the token immediately after the first word 'file', "" if there is none
RECURSIVE PathIn(_)
PathIn(ws) ==
    IF ws = <<>> THEN ""
    ELSE IF ws[1] = "file" THEN (IF Len(ws) >= 2 THEN ws[2] ELSE "")
    ELSE PathIn(Tail(ws))

SystemGroups ==
    << [action |-> "set_volume", keywords |-> <<"volume", "sound", "audio">>],
       [action |-> "set_brightness", keywords |-> <<"brightness", "screen light">>],
       [action |-> "shutdown", keywords |-> <<"shutdown", "turn off", "power off">>],
       [action |-> "restart", keywords |-> <<"restart", "reboot", "reload">>] >>

\* the groups one of whose keywords occurs in t
GroupsIn(t) == {g \in DOMAIN SystemGroups : AnyIn(t, SystemGroups[g].keywords)}

HasDigit(t) == \E i \in 1..Len(t) : IsDigit(CharAt(t, i))

\* the value of the first run of decimal digits of s, which holds a digit
RECURSIVE FirstRun(_)
FirstRun(s) ==
    IF IsDigit(CharAt(s, 1)) THEN ParseInt(SubSeq(s, 1, DigitRunLen(s)))
    ELSE FirstRun(SubSeq(s, 2, Len(s)))

\* the action and the level a system input gets: the first group in the order
\* volume, brightness, shutdown, restart; the first digit run, 50 without one
SystemActionAndLevel ==
    LET t == Normalized
        g == CHOOSE i \in GroupsIn(t) : \A j \in GroupsIn(t) : i <= j
    IN  GroupsIn(t) # {} =>
            /\ result.action = SystemGroups[g].action
            /\ g <= 2 =>
                  result.params =
                      [level |-> IF HasDigit(t) THEN FirstRun(t) ELSE DefaultLevel]

\* C27 as stated: for a system input whose first matching group is volume or
\* brightness the level is the value of the first digit run, and it is 50
\* exactly when the text contains no digit; groups are taken in the order
\* volume, brightness, shutdown, restart.
C27_LevelFiftyIffNoDigit ==
    (cpc = "parsed" /\ result.type = "system") =>
        /\ SystemActionAndLevel
        /\ result.action \in {"set_volume", "set_brightness"} =>
              (result.params.level = DefaultLevel <=> ~HasDigit(Normalized))

\* C27 amended: for a system input whose first matching group is volume or
\* brightness the level is the value of the first digit run (0 gives 0, values
\* above 100 pass through), and it is 50 whenever the text contains no digit;
\* groups are taken in the order volume, brightness, shutdown, restart.
C27_Level ==
    (cpc = "parsed" /\ result.type = "system") =>
        /\ SystemActionAndLevel
        /\ (result.action \in {"set_volume", "set_brightness"} /\ ~HasDigit(Normalized)) =>
              result.params.level = DefaultLevel

\* a system input whose digit run is 50, so that the level is 50 with a digit
C27_Witness ==
    /\ cpc = "parsed"
    /\ result.type = "system"
    /\ result.action = "set_volume"
    /\ HasDigit(Normalized)
    /\ result.params.level = DefaultLevel

(***************************************************************************)
(* _chunk_text keeps the words of the text.                                *)
(***************************************************************************)
\* C30: reading the chunks in order gives the whitespace-delimited words of
\* the input in order, nothing lost, duplicated or reordered, and a sentence
\* of at most 100 characters is one chunk, unchanged.
C30_WordsPreserved ==
    kpc = "chunked" =>
        LET sentences == SplitSentences(sentence)
        IN  /\ WordsOf(pieces) = split(sentence)
            /\ \A i \in DOMAIN sentences :
                  Len(sentences[i]) <= LongSentence =>
                      \E j \in DOMAIN pieces : pieces[j] = sentences[i]
            /\ (\A i \in DOMAIN sentences : Len(sentences[i]) <= LongSentence) =>
                  pieces = sentences

\* a text of a long sentence, cut in two chunks, and a short one, kept whole
C30_Witness ==
    /\ kpc = "chunked"
    /\ Len(SplitSentences(sentence)) = 2
    /\ Len(SplitSentences(sentence)[1]) > LongSentence
    /\ Len(pieces) = 3
    /\ pieces[3] = SplitSentences(sentence)[2]

(***************************************************************************)
(* The worker waits with speaking false.                                   *)
(***************************************************************************)
\* the worker leaves an item, whichever way, with speaking false
FinishSteps == (InItem /\ wpc' = "L45") => (~speaking' /\ current.id \in finished')

\* C28: whenever the worker waits on the queue speaking is false, and every
\* way of finishing an item (all chunks spoken, item interrupted, engine
\* exception) resets speaking before the worker waits again, whatever the
\* other threads do in between.
C28_IdleNotSpeaking ==
    /\ [](wpc = "L45" => ~speaking)
    /\ [][FinishSteps]_vars

\* the worker waits on an empty queue after one item failed in the engine and
\* another was left on an interrupt
C28_Witness ==
    /\ WorkerIdle
    /\ ~speaking
    /\ finished = {1, 2}
    /\ failed # {}
    /\ failed # finished
    /\ quiet > 0

(***************************************************************************)
(* What speak() puts on the queue.                                         *)
(***************************************************************************)
\* the shutdown signal is on the queue
SentinelQueued == \E i \in DOMAIN speech_queue : speech_queue[i] = None

\* a speak() given the empty string or None leaves the queue, the flags and
\* the position of every thread as they are
EmptySpeakSteps ==
    \A t \in Threads : \A txt \in {"", NoneArg} :
        Speak_Call(t, txt) => UNCHANGED <<speech_queue, flags, tpc, wpc>>

\* C29: speak() enqueues nothing for an empty string or None, so the None
\* signal reaches the queue only through shutdown(): without a shutdown() the
\* worker never leaves its loop, whatever speak() is given, every queued text
\* is non-empty, and a speak('') or speak(None) call changes neither the queue
\* nor a flag.
C29_SentinelOnlyByShutdown ==
    /\ []((SentinelQueued \/ wpc = "exited") => shutdown_called)
    /\ [](\A i \in DOMAIN speech_queue :
              speech_queue[i] # None => Truthy(speech_queue[i].text))
    /\ [][EmptySpeakSteps]_vars

\* speak('') and speak(None) have both been called, nothing is queued and the
\* worker still waits in its loop
C29_Witness ==
    /\ said = <<"", NoneArg>>
    /\ speech_queue = <<>>
    /\ wpc = "L45"
    /\ ~shutdown_called
    /\ \A t \in Threads : tpc[t] = "idle"

(***************************************************************************)
(* The help menu of show_help: each command form it lists, under the       *)
(* section that lists it, with values put in place of <name>, <path>,      *)
(* <query>, <website>, <app> and <level>.                                  *)
(***************************************************************************)
HelpLine(section, action, form) == [section |-> section, action |-> action, text |-> form]

HelpMenu ==
    { HelpLine("voice", "stop", "stop talking"), HelpLine("voice", "resume", "continue") }
    \cup { HelpLine("screen", "", f) :
             f \in {"read screen", "read code", "show me", "analyze this"} }
    \cup { HelpLine("vscode", "", f) : f \in {"open vs code", "save file", "close vs code"} }
    \cup { HelpLine("vscode", "", "create workspace " \o v) : v \in {"my_app", "demo"} }
    \cup { HelpLine("vscode", "", "open file " \o v) : v \in {"main.py", "src/app.py"} }
    \cup { HelpLine("browser", "", f) :
             f \in {"open chrome", "open firefox", "open private window", "close browser"} }
    \cup { HelpLine("browser", "", "search for " \o v) : v \in {"python tutorials", "tla"} }
    \cup { HelpLine("browser", "", "go to " \o v) : v \in {"example.com", "docs.python.org"} }
    \cup { HelpLine("window", "", f \o v) :
             f \in {"maximize ", "minimize ", "switch to "},
             v \in {"chrome", "firefox", "notepad", "vscode"} }
    \cup { HelpLine("window", "", "restore window") }
    \cup { HelpLine("system", "", "set volume " \o v) : v \in {"0", "50", "100"} }
    \cup { HelpLine("system", "", f) :
             f \in {"adjust brightness", "restart system", "shutdown computer"} }

\* the user types a command as the help menu gives it
TypeHelp(h) ==
    /\ cpc = "input"
    /\ nfrag = 0
    /\ text' = h.text
    /\ nfrag' = MaxFragments
    /\ UNCHANGED <<commands, result, cpc, earlier>>
    /\ UNCHANGED <<svars, kvars, evars, xvars, avars>>

HelpNext ==
    \/ \E h \in HelpMenu : TypeHelp(h)
    \/ ParseCommand
    \/ NextCommand

HelpSpec == Init /\ [][HelpNext]_vars

\* C23: each command form of the help menu, with a value in place of its
\* placeholder, is classified into the category of the section that lists it,
\* and 'stop talking' and 'continue' get the actions stop and resume.
C23_HelpFormsClassified ==
    cpc = "parsed" =>
        \A h \in HelpMenu :
            h.text = text =>
                /\ result.type = h.section
                /\ h.section = "voice" => result.action = h.action

(***************************************************************************)
(* The utility command 'repeat'.                                           *)
(***************************************************************************)
\* C22: when the processing of 'repeat' is over, the command received before
\* it has been carried out exactly once and nothing else has, without an
\* error; when there was no earlier command nothing has been carried out.
C22_RepeatReexecutes ==
    (ppc = "idle" /\ lower(top) = "repeat" /\ lower(previous) # "repeat") =>
        /\ ~raised
        /\ handled = IF previous = "" THEN <<>> ELSE <<previous>>

(***************************************************************************)
(* Volume and rate calls from two threads.                                 *)
(***************************************************************************)
\* a call applied to the pair <<volume, rate>>
Applied(op, s) ==
    IF op \in {"increase_volume", "decrease_volume"}
    THEN <<NewValue(op, s[1]), s[2]>>
    ELSE <<s[1], NewValue(op, s[2])>>

\* what the calls numbered in todo give from s, applied one after another in
\* any order
RECURSIVE SerialOutcomes(_, _)
SerialOutcomes(todo, s) ==
    IF todo = {} THEN {s}
    ELSE UNION {SerialOutcomes(todo \ {i}, Applied(adjustments[i], s)) : i \in todo}

\* C24: volume and rate calls made at once from different threads are
\* serialized: once they have all returned, the volume and the rate are what
\* the same calls give when applied one after another in some order.
C24_Serialized ==
    (\A t \in Threads : apc[t] = "idle") =>
        <<volume, rate>> \in
            SerialOutcomes(DOMAIN adjustments, <<InitialVolume, InitialRate>>)

=============================================================================
